---- MODULE Spec2Model ----
(***************************************************************************)
(* A model of uv_magic.py (class UVMagic): the option parser, the script   *)
(* header, the print rewriter, the runner that owns the temporary script   *)
(* file, the capture harness that runs inside the child, and the           *)
(* reconstruction of the child's output.                                   *)
(*                                                                         *)
(* Texts are sequences of tokens (TLA+ strings are atoms), so "contains"   *)
(* and "between" are statements about positions in a sequence.             *)
(***************************************************************************)
EXTENDS Integers, Sequences, FiniteSets, TLC

VARIABLES
    inv,      \* execute_script: one record per concurrent invocation
    fs,       \* the temporary-file namespace shared by the invocations
    child,    \* the generated harness running inside the child process
    recon,    \* process_output
    opts,     \* parse_arguments followed by build_script's header
    rewrite   \* replace_print_statements

vars == <<inv, fs, child, recon, opts, rewrite>>

\* ------------------------------------------------------------------ bounds

NumInv == 2        \* concurrent invocations of execute_script
NumNames == 2      \* names the temporary directory can hand out

Invocations == 1..NumInv
Names == 1..NumNames

\* ------------------------------------------------- values the idle parts hold

IdleInv == [i \in Invocations |-> [pc |-> "idle"]]
IdleFs == [n \in Names |-> [exists |-> FALSE, owner |-> 0, text |-> 0]]
IdleChild == [pc |-> "idle"]
IdleRecon == [pc |-> "idle"]
IdleOpts == [pc |-> "idle"]
IdleRewrite == [pc |-> "idle"]

\* ========================================================= execute_script

\* script_content of invocation i: every invocation carries its own text.
ScriptOf(i) == i

PythonVersions == {"", "3.11"}

\* Line 163, NamedTemporaryFile(delete=False): the name is one that does not
\* exist (the file is opened O_CREAT|O_EXCL and the draw repeated on a clash).
CandidateNamesNoExcl(f) == Names

CandidateNames(f) == {n \in Names : ~f[n].exists}

\* Lines 168-171: the child's argument vector.
BuildCmd(python_version, temp_file_path) ==
    <<"uv", "run">>
      \o (IF python_version # "" THEN <<"--python", python_version>> ELSE <<>>)
      \o <<temp_file_path>>

\* Lines 176-181: check=True turns a non-zero status into CalledProcessError,
\* which the handler reports; status 0 returns the child's stdout.
RunOutcome(status) == IF status = 0 THEN "Success" ELSE "Failure"

\* Line 179: error_message = e.stderr or e.stdout
ErrorMessage(stderr, stdout) == IF stderr # "" THEN stderr ELSE stdout

NewInv(v) ==
    [pc |-> "create", python_version |-> v, path |-> 0, created |-> FALSE,
     buf |-> 0, cmd |-> <<>>, fault |-> "none", ran |-> 0, pending |-> "none",
     outcome |-> "none", displayed |-> "nothing", unlinks |-> 0]

InitRun ==
    /\ inv \in [Invocations -> {NewInv(v) : v \in PythonVersions}]
    /\ fs = IdleFs
    /\ child = IdleChild
    /\ recon = IdleRecon
    /\ opts = IdleOpts
    /\ rewrite = IdleRewrite

Others == <<child, recon, opts, rewrite>>

\* Line 163: the file is created empty, or creation raises (no usable name,
\* or the directory refuses); nothing exists then and nothing is unlinked.
Create(i) ==
    /\ inv[i].pc = "create"
    /\ \/ \E n \in CandidateNames(fs) :
            /\ fs' = [fs EXCEPT ![n] = [exists |-> TRUE, owner |-> i, text |-> 0]]
            /\ inv' = [inv EXCEPT ![i].pc = "chmod", ![i].path = n,
                                  ![i].created = TRUE]
       \/ /\ inv' = [inv EXCEPT ![i].pc = "done", ![i].fault = "create",
                                ![i].outcome = "Raised"]
          /\ fs' = fs
    /\ UNCHANGED Others

\* Line 164: os.chmod inside the with block, which no try/finally covers: a
\* raise leaves the with block (the handle is closed, delete=False keeps the
\* file) and execute_script.
Chmod(i) ==
    /\ inv[i].pc = "chmod"
    /\ \/ inv' = [inv EXCEPT ![i].pc = "write"]
       \/ inv' = [inv EXCEPT ![i].pc = "done", ![i].fault = "chmod",
                             ![i].outcome = "Raised"]
    /\ UNCHANGED <<fs, Others>>

\* Line 165: temp_file.write buffers the text, or raises.
Write(i) ==
    /\ inv[i].pc = "write"
    /\ \/ inv' = [inv EXCEPT ![i].pc = "close", ![i].buf = ScriptOf(i)]
       \/ inv' = [inv EXCEPT ![i].pc = "done", ![i].fault = "write",
                             ![i].outcome = "Raised"]
    /\ UNCHANGED <<fs, Others>>

\* Lines 166-167: temp_file_path is taken and the with block ends: the buffer
\* is flushed to the file named by the handle, or the flush raises.
Close(i) ==
    /\ inv[i].pc = "close"
    /\ \/ /\ fs' = [fs EXCEPT ![inv[i].path].text = inv[i].buf]
          /\ inv' = [inv EXCEPT ![i].pc = "launch",
                        ![i].cmd = BuildCmd(inv[i].python_version, inv[i].path)]
       \/ /\ inv' = [inv EXCEPT ![i].pc = "done", ![i].fault = "close",
                                ![i].outcome = "Raised"]
          /\ fs' = fs
    /\ UNCHANGED Others

\* Line 176, entering the try: uv starts and reads the file named by the last
\* argument, or subprocess.run raises FileNotFoundError/OSError (uv missing),
\* which is no CalledProcessError: only the finally clause runs.
Launch(i) ==
    /\ inv[i].pc = "launch"
    /\ \/ inv' = [inv EXCEPT ![i].pc = "child",
                     ![i].ran = IF fs[inv[i].cmd[Len(inv[i].cmd)]].exists
                                THEN fs[inv[i].cmd[Len(inv[i].cmd)]].text ELSE -1]
       \/ inv' = [inv EXCEPT ![i].pc = "finally", ![i].fault = "launch",
                             ![i].pending = "Raised"]
    /\ UNCHANGED <<fs, Others>>

\* Lines 176-181: the child terminates; 0 returns its stdout, anything else is
\* displayed as "Error running uv" and None is returned.
ChildExit(i) ==
    /\ inv[i].pc = "child"
    /\ \E status \in {0, 1}, stderr \in {"", "err"}, stdout \in {"", "out"} :
         inv' = [inv EXCEPT ![i].pc = "finally",
                    ![i].pending = RunOutcome(status),
                    ![i].fault = IF status = 0 THEN "none" ELSE "nonzero",
                    ![i].displayed = IF status = 0 THEN "nothing"
                                     ELSE ErrorMessage(stderr, stdout)]
    /\ UNCHANGED <<fs, Others>>

\* Lines 182-183: os.unlink(temp_file_path); a missing file makes it raise.
Unlink(i) ==
    /\ inv[i].pc = "finally"
    /\ IF fs[inv[i].path].exists
       THEN /\ fs' = [fs EXCEPT ![inv[i].path] =
                         [exists |-> FALSE, owner |-> 0, text |-> 0]]
            /\ inv' = [inv EXCEPT ![i].pc = "done",
                          ![i].unlinks = inv[i].unlinks + 1,
                          ![i].outcome = inv[i].pending]
       ELSE /\ fs' = fs
            /\ inv' = [inv EXCEPT ![i].pc = "done", ![i].outcome = "Raised"]
    /\ UNCHANGED Others

NextRun ==
    \E i \in Invocations :
        \/ Create(i)
        \/ Chmod(i)
        \/ Write(i)
        \/ Close(i)
        \/ Launch(i)
        \/ ChildExit(i)
        \/ Unlink(i)

SpecRun == InitRun /\ [][NextRun]_vars

\* ============================================ the harness inside the child

MaxStmts == 2      \* statements in the user's cell

\* What a statement of the cell does, as far as the harness can tell.
Stmts == {"print", "figure", "stderr", "raise", "exit"}

Codes == UNION {[1..k -> Stmts] : k \in 0..MaxStmts}

DivOpen == "<div class=\"output-text\">"
DivClose == "</div>"
PlotOpen == "<div class=\"output-plot\"><img src=\"data:image/png;base64,"
PlotClose == "\"></div>"
PreOpen == "<pre style=\"color:red;\">"
PreClose == "</pre>"
TracebackText == "Traceback (most recent call last): ..."

\* Lines 121-127: fig.savefig into a buffer, base64 of its bytes.
ImgStr(n) == "png" \o ToString(n)

NewChild(plotting, code) ==
    [pc |-> "redirect", use_matplotlib |-> plotting, code |-> code,
     sys_stdout |-> "orig", sys_stderr |-> "orig",
     out |-> <<>>, err |-> <<>>, realOut |-> <<>>, realErr |-> <<>>,
     backend |-> "default", figs |-> {}, raised |-> "no", message |-> "",
     figsAtEnd |-> {}, status |-> -1, steps |-> <<>>, outcome |-> "none"]

InitHarness ==
    /\ child \in {NewChild(p, c) : p \in BOOLEAN, c \in Codes}
    /\ inv = IdleInv
    /\ fs = IdleFs
    /\ recon = IdleRecon
    /\ opts = IdleOpts
    /\ rewrite = IdleRewrite

NotChild == <<inv, fs, recon, opts, rewrite>>

\* print(...) and traceback.print_exc() write to whatever sys.stdout and
\* sys.stderr are bound to at that moment.
ToStdout(c, toks) ==
    IF c.sys_stdout = "capture" THEN [c EXCEPT !.out = c.out \o toks]
    ELSE [c EXCEPT !.realOut = c.realOut \o toks]

ToStderr(c, toks) ==
    IF c.sys_stderr = "capture" THEN [c EXCEPT !.err = c.err \o toks]
    ELSE [c EXCEPT !.realErr = c.realErr \o toks]

\* Lines 107-110: custom_print brackets one print's output.
CustomPrint(c, text) == ToStdout(c, <<DivOpen, text, "\n", DivClose>>)

\* Lines 101-105.
Redirect ==
    /\ child.pc = "redirect"
    /\ child' = [child EXCEPT !.pc = "backend", !.sys_stdout = "capture",
                    !.sys_stderr = "capture", !.steps = child.steps \o <<"redirect">>]
    /\ UNCHANGED NotChild

\* Lines 112-116: inside the try, before the cell.
SelectBackend ==
    /\ child.pc = "backend"
    /\ child' = IF child.use_matplotlib
                THEN [child EXCEPT !.pc = "user", !.backend = "Agg",
                                   !.steps = child.steps \o <<"backend">>]
                ELSE [child EXCEPT !.pc = "user"]
    /\ UNCHANGED NotChild

\* The exception classes the cell raises: ValueError and NameError derive from
\* Exception, SystemExit derives from BaseException only.
Raise(c, kind, msg) ==
    [c EXCEPT !.pc = IF kind = "Exception" THEN "except" ELSE "exit",
              !.raised = kind, !.message = msg, !.figsAtEnd = c.figs,
              !.steps = c.steps \o <<"user">>]

\* Line 118: one statement of the cell. The cell's plt is the name the harness
\* imports at line 116, bound only when plotting is on; sys.exit(1) raises
\* SystemExit.
Exec(c, stmt) ==
    LET rest == [c EXCEPT !.code = Tail(c.code)] IN
    CASE stmt = "print" -> CustomPrint(rest, "hi")
      [] stmt = "stderr" -> ToStderr(rest, <<"warn">>)
      [] stmt = "figure" ->
            IF c.use_matplotlib
            THEN [rest EXCEPT !.figs = c.figs \cup {Cardinality(c.figs) + 1}]
            ELSE Raise(rest, "Exception", "name 'plt' is not defined")
      [] stmt = "raise" -> Raise(rest, "Exception", "boom")
      [] stmt = "exit" -> Raise(rest, "SystemExit", "1")

UserStmt ==
    /\ child.pc = "user"
    /\ child.code # <<>>
    /\ child' = Exec(child, Head(child.code))
    /\ UNCHANGED NotChild

\* The cell ran to its end without raising.
UserDone ==
    /\ child.pc = "user"
    /\ child.code = <<>>
    /\ child' = [child EXCEPT !.pc = "capture", !.figsAtEnd = child.figs,
                              !.steps = child.steps \o <<"user">>]
    /\ UNCHANGED NotChild

RECURSIVE PlotBlocks(_)
PlotBlocks(figs) ==
    IF figs = {} THEN <<>>
    ELSE LET n == CHOOSE m \in figs : \A k \in figs : m <= k IN
         <<PlotOpen, ImgStr(n), PlotClose, "\n">> \o PlotBlocks(figs \ {n})

\* Lines 120-128: still inside the try, after the cell.
CaptureFigures ==
    /\ child.pc = "capture"
    /\ child' = IF child.use_matplotlib
                THEN [ToStdout(child, PlotBlocks(child.figs)) EXCEPT
                         !.pc = "restore", !.figs = {},
                         !.steps = child.steps \o <<"capture">>]
                ELSE [child EXCEPT !.pc = "restore"]
    /\ UNCHANGED NotChild

\* Lines 130-134: the handler of `except Exception`.
ExceptBlock ==
    /\ child.pc = "except"
    /\ child' =
         [ToStdout(
            ToStderr(
              ToStdout(child, <<PreOpen, "An error occurred: ", child.message, "\n",
                                "Traceback:", "\n">>),
              <<TracebackText>>),
            <<PreClose, "\n">>)
          EXCEPT !.pc = "restore"]
    /\ UNCHANGED NotChild

\* Lines 136-137.
Restore ==
    /\ child.pc = "restore"
    /\ child' = [child EXCEPT !.pc = "emit", !.sys_stdout = "orig",
                    !.sys_stderr = "orig", !.steps = child.steps \o <<"restore">>]
    /\ UNCHANGED NotChild

\* Line 139-140: json.dumps of the two accumulators' joined contents, one line.
ResultLine(out, err) == [stdout |-> out, stderr |-> err]

\* Lines 139-140, then the interpreter ends with status 0 and the parent
\* (lines 176-177) classifies the run.
EmitResult ==
    /\ child.pc = "emit"
    /\ child' = [ToStdout(child, <<ResultLine(child.out, child.err)>>)
                 EXCEPT !.pc = "end", !.status = 0, !.outcome = RunOutcome(0),
                        !.steps = child.steps \o <<"emit">>]
    /\ UNCHANGED NotChild

\* SystemExit is no Exception: it leaves the try statement, nothing after it
\* runs, and the interpreter ends with the status it carries.
InterpreterExit ==
    /\ child.pc = "exit"
    /\ child' = [child EXCEPT !.pc = "end", !.status = 1, !.outcome = RunOutcome(1)]
    /\ UNCHANGED NotChild

NextHarness ==
    \/ Redirect
    \/ SelectBackend
    \/ UserStmt
    \/ UserDone
    \/ CaptureFigures
    \/ ExceptBlock
    \/ Restore
    \/ EmitResult
    \/ InterpreterExit

SpecHarness == InitHarness /\ [][NextHarness]_vars

\* ========================================================== process_output

MaxLines == 2      \* lines of raw_stdout

ObjOk == "{\"stdout\": \"<div class=\\\"output-text\\\">hi</div>\", \"stderr\": \"\"}"
ObjErr == "{\"stdout\": \"<div class=\\\"output-text\\\">hi</div>\", \"stderr\": \"warn\"}"
ObjEmpty == "{}"

Lines == {"", "not json", ObjOk, ObjErr, ObjEmpty, "[1, 2]", "123", "\"text\"", "null"}

Texts == UNION {[1..k -> Lines] : k \in 0..MaxLines}

\* json.loads of one line that holds a whole JSON value: the Python value.
LineValue(line) ==
    CASE line = ObjOk ->
            [type |-> "dict", keys |-> {"stdout", "stderr"},
             stdout |-> "<div class=\"output-text\">hi</div>", stderr |-> ""]
      [] line = ObjErr ->
            [type |-> "dict", keys |-> {"stdout", "stderr"},
             stdout |-> "<div class=\"output-text\">hi</div>", stderr |-> "warn"]
      [] line = ObjEmpty -> [type |-> "dict", keys |-> {}, stdout |-> "", stderr |-> ""]
      [] line = "[1, 2]" -> [type |-> "list", keys |-> {}, stdout |-> "", stderr |-> ""]
      [] line = "123" -> [type |-> "int", keys |-> {}, stdout |-> "", stderr |-> ""]
      [] line = "\"text\"" -> [type |-> "str", keys |-> {}, stdout |-> "", stderr |-> ""]
      [] line = "null" -> [type |-> "NoneType", keys |-> {}, stdout |-> "", stderr |-> ""]
      [] OTHER -> [type |-> "invalid", keys |-> {}, stdout |-> "", stderr |-> ""]

NonBlank(line) == line # ""

\* Line 191, json.loads(output_json): surrounding whitespace is skipped, one
\* JSON value must be the whole text ("Expecting value" and "Extra data" are
\* both JSONDecodeError).
JsonLoads(text) ==
    LET body == SelectSeq(text, NonBlank) IN
    IF Len(body) = 1 /\ LineValue(body[1]).type # "invalid"
    THEN [ok |-> TRUE, value |-> LineValue(body[1])]
    ELSE [ok |-> FALSE, value |-> LineValue("")]

\* dict.get(key, ''), lines 192-193.
Get(value, key) ==
    IF key \in value.keys
    THEN (IF key = "stdout" THEN value.stdout ELSE value.stderr)
    ELSE ""

NewRecon(isNone, text) ==
    [pc |-> "guard", isNone |-> isNone, output_json |-> text,
     output |-> LineValue(""), stdout |-> "", stderr |-> "",
     shown |-> <<>>, raised |-> "none"]

InitRecon ==
    /\ recon \in {NewRecon(FALSE, t) : t \in Texts} \cup {NewRecon(TRUE, <<>>)}
    /\ inv = IdleInv
    /\ fs = IdleFs
    /\ child = IdleChild
    /\ opts = IdleOpts
    /\ rewrite = IdleRewrite

NotRecon == <<inv, fs, child, opts, rewrite>>

\* Lines 187-188: None (a runner failure) and the empty text return at once.
PO_Guard ==
    /\ recon.pc = "guard"
    /\ recon' = IF recon.isNone \/ recon.output_json = <<>>
                THEN [recon EXCEPT !.pc = "end"]
                ELSE [recon EXCEPT !.pc = "loads"]
    /\ UNCHANGED NotRecon

\* Line 191.
PO_Loads ==
    /\ recon.pc = "loads"
    /\ recon' = IF JsonLoads(recon.output_json).ok
                THEN [recon EXCEPT !.pc = "get",
                                   !.output = JsonLoads(recon.output_json).value]
                ELSE [recon EXCEPT !.pc = "fallback"]
    /\ UNCHANGED NotRecon

\* Lines 192-193: only a dict has .get; on any other value the attribute
\* lookup raises AttributeError, which `except json.JSONDecodeError` lets by.
PO_Get ==
    /\ recon.pc = "get"
    /\ recon' = IF recon.output.type = "dict"
                THEN [recon EXCEPT !.pc = "display",
                                   !.stdout = Get(recon.output, "stdout"),
                                   !.stderr = Get(recon.output, "stderr")]
                ELSE [recon EXCEPT !.pc = "end", !.raised = "AttributeError"]
    /\ UNCHANGED NotRecon

\* Lines 195-201.
PO_Display ==
    /\ recon.pc = "display"
    /\ recon' = [recon EXCEPT !.pc = "stderr",
                    !.shown = recon.shown \o <<[kind |-> "html", body |-> recon.stdout]>>]
    /\ UNCHANGED NotRecon

\* Lines 202-204.
PO_Stderr ==
    /\ recon.pc = "stderr"
    /\ recon' = IF recon.stderr # ""
                THEN [recon EXCEPT !.pc = "end",
                         !.shown = recon.shown \o
                                   <<[kind |-> "stderr", body |-> recon.stderr]>>]
                ELSE [recon EXCEPT !.pc = "end"]
    /\ UNCHANGED NotRecon

\* Lines 205-207.
PO_Fallback ==
    /\ recon.pc = "fallback"
    /\ recon' = [recon EXCEPT !.pc = "end",
                    !.shown = recon.shown \o
                              <<[kind |-> "raw", body |-> recon.output_json]>>]
    /\ UNCHANGED NotRecon

NextRecon ==
    \/ PO_Guard
    \/ PO_Loads
    \/ PO_Get
    \/ PO_Display
    \/ PO_Stderr
    \/ PO_Fallback

SpecRecon == InitRecon /\ [][NextRecon]_vars

\* ===================================== parse_arguments, build_script header

\* A word of the options line is a sequence of chunks cut so that every test
\* the code makes on it is a test on its first chunk: "python=3.10" is
\* <<"python=", "3.10">>, "--with" is <<"--", "with">>, ">=3.8" is
\* <<">=", "3.8">>.
MaxGroups == 3     \* option groups on the options line
MaxDeps == 2       \* dependencies after one --with

Ops == {"==", ">=", "<=", ">", "<", "~=", "!="}

Constraints == {<<"3.10">>, <<">=", "3.8">>, <<"<", "3.13">>, <<>>}
DepNames == {<<"numpy">>, <<"matplotlib">>}
DepLists == UNION {[1..k -> DepNames] : k \in 0..MaxDeps}

FlagPython == <<"--", "python">>
FlagWith == <<"--", "with">>

\* The groups an options line is made of: python=<constraint>,
\* --python <version>, --with <dep>..., and words that are no option.
Groups ==
    {[kind |-> "spec", words |-> <<<<"python=">> \o c>>, c |-> c, d |-> <<>>] :
        c \in Constraints}
    \cup {[kind |-> "python", words |-> <<FlagPython, <<"3.11">>>>, c |-> <<>>, d |-> <<>>]}
    \cup {[kind |-> "with", words |-> <<FlagWith>> \o d, c |-> <<>>, d |-> d] :
        d \in DepLists}
    \cup {[kind |-> "other", words |-> <<w>>, c |-> <<>>, d |-> <<>>] :
        w \in {<<"--", "verbose">>, <<"foo">>, FlagPython}}

GroupSeqs == UNION {[1..k -> Groups] : k \in 0..MaxGroups}

RECURSIVE Flatten(_)
Flatten(gs) == IF gs = <<>> THEN <<>> ELSE Head(gs).words \o Flatten(Tail(gs))

StartsWith(word, chunk) == word # <<>> /\ word[1] = chunk

\* Line 43: python_spec.startswith(('==', '>=', '<=', '>', '<', '~=', '!='))
StartsWithOp(python_spec) == python_spec # <<>> /\ python_spec[1] \in Ops

\* Lines 41-44.
NormalizeSpecNoPrefix(part) == Tail(part)

NormalizeSpec(part) ==
    LET python_spec == Tail(part) IN
    IF StartsWithOp(python_spec) THEN python_spec ELSE <<"==">> \o python_spec

\* Lines 55-57: the first index from i on that is past the end or holds a
\* word starting with "--".
RECURSIVE DepsEnd(_, _)
DepsEnd(parts, i) ==
    IF i <= Len(parts) /\ ~StartsWith(parts[i], "--")
    THEN DepsEnd(parts, i + 1)
    ELSE i

NoArgs == [has_spec |-> FALSE, python_spec |-> <<>>,
           has_python |-> FALSE, python |-> <<>>,
           has_with |-> FALSE, deps |-> <<>>]

NewOpts(gs) ==
    [pc |-> "parse", groups |-> gs, parts |-> Flatten(gs), i |-> 1, args |-> NoArgs,
     use_matplotlib |-> FALSE, header |-> <<>>, script |-> <<>>]

InitOpts ==
    /\ opts \in {NewOpts(gs) : gs \in GroupSeqs}
    /\ inv = IdleInv
    /\ fs = IdleFs
    /\ child = IdleChild
    /\ recon = IdleRecon
    /\ rewrite = IdleRewrite

NotOpts == <<inv, fs, child, recon, rewrite>>

Looping == opts.pc = "parse" /\ opts.i <= Len(opts.parts)

\* Lines 40-46.
PA_Spec ==
    /\ Looping
    /\ StartsWith(opts.parts[opts.i], "python=")
    /\ opts' = [opts EXCEPT !.i = opts.i + 1, !.args.has_spec = TRUE,
                   !.args.python_spec = NormalizeSpec(opts.parts[opts.i])]
    /\ UNCHANGED NotOpts

\* Lines 47-50.
PA_Python ==
    /\ Looping
    /\ ~StartsWith(opts.parts[opts.i], "python=")
    /\ opts.parts[opts.i] = FlagPython /\ opts.i + 1 <= Len(opts.parts)
    /\ opts' = [opts EXCEPT !.i = opts.i + 2, !.args.has_python = TRUE,
                   !.args.python = opts.parts[opts.i + 1]]
    /\ UNCHANGED NotOpts

\* Lines 51-58.
PA_With ==
    /\ Looping
    /\ ~StartsWith(opts.parts[opts.i], "python=")
    /\ ~(opts.parts[opts.i] = FlagPython /\ opts.i + 1 <= Len(opts.parts))
    /\ opts.parts[opts.i] = FlagWith /\ opts.i + 1 <= Len(opts.parts)
    /\ LET end == DepsEnd(opts.parts, opts.i + 1) IN
       opts' = [opts EXCEPT !.i = end, !.args.has_with = TRUE,
                   !.args.deps = SubSeq(opts.parts, opts.i + 1, end - 1)]
    /\ UNCHANGED NotOpts

\* Lines 59-60.
PA_Skip ==
    /\ Looping
    /\ ~StartsWith(opts.parts[opts.i], "python=")
    /\ ~(opts.parts[opts.i] = FlagPython /\ opts.i + 1 <= Len(opts.parts))
    /\ ~(opts.parts[opts.i] = FlagWith /\ opts.i + 1 <= Len(opts.parts))
    /\ opts' = [opts EXCEPT !.i = opts.i + 1]
    /\ UNCHANGED NotOpts

RECURSIVE JoinItems(_)
JoinItems(list) ==
    IF list = <<>> THEN <<>>
    ELSE <<"\"">> \o Head(list) \o <<"\"">>
         \o (IF Len(list) > 1 THEN <<", ">> ELSE <<>>) \o JoinItems(Tail(list))

\* Line 70: json.dumps of a list of strings.
JsonDumps(list) == <<"[">> \o JoinItems(list) \o <<"]">>

\* Lines 66-72: the header's lines; `if python_spec` is the truth value of
\* None or of a string.
HeaderLines(has_spec, python_spec, dependencies) ==
    <<<<"# ", "/// script">>>>
      \o (IF has_spec /\ python_spec # <<>>
          THEN <<<<"# ", "requires-python = ", "\"">> \o python_spec \o <<"\"">>>>
          ELSE <<>>)
      \o <<<<"# ", "dependencies = ">> \o JsonDumps(dependencies)>>
      \o <<<<"# ", "///">>>>

\* Lines 81-141: the body's lines follow the header (line 143); its first
\* statement is `import sys`, the indented cell stands inside the try.
BodyLines == <<<<"import sys">>, <<"try:">>, <<"    ", "cell">>,
               <<"print(json.dumps(result))">>>>

\* Line 61 (the loop is over), then uv_run lines 22-28 and build_script.
PA_ReturnAndBuild ==
    /\ opts.pc = "parse"
    /\ opts.i > Len(opts.parts)
    /\ LET python_spec == opts.args.python_spec
           dependencies == IF opts.args.has_with THEN opts.args.deps ELSE <<>>
           header == HeaderLines(opts.args.has_spec, python_spec, dependencies)
       IN opts' = [opts EXCEPT !.pc = "done",
                      !.use_matplotlib = \E k \in 1..Len(dependencies) :
                                             dependencies[k] = <<"matplotlib">>,
                      !.header = header,
                      !.script = header \o BodyLines]
    /\ UNCHANGED NotOpts

NextOpts ==
    \/ PA_Spec
    \/ PA_Python
    \/ PA_With
    \/ PA_Skip
    \/ PA_ReturnAndBuild

SpecOpts == InitOpts /\ [][NextOpts]_vars

\* ================================================ replace_print_statements

MaxCell == 2       \* statements in the cell handed to the rewriter

\* A syntax-tree node: its class, its identifier (a Name's id, an
\* Attribute's attr, a Constant's literal, an Assign's target) and its
\* children (a Call's func followed by its args).
Node(t, id, kids) == [t |-> t, id |-> id, kids |-> kids]
Name(id) == Node("Name", id, <<>>)
Const(lit) == Node("Constant", lit, <<>>)
Attr(value, attr) == Node("Attribute", attr, <<value>>)
Call(func, args) == Node("Call", "", <<func>> \o args)
Expr(value) == Node("Expr", "", <<value>>)
Assign(target, value) == Node("Assign", target, <<value>>)
Module(body) == Node("Module", "", body)

Atoms == {Name("print"), Name("obj"), Const("'print'")}

\* print, obj.print, print(), print(a), obj(a), ...
Simple ==
    Atoms
    \cup {Call(f, <<>>) : f \in {Name("print"), Name("obj")}}
    \cup {Call(f, <<a>>) : f \in {Name("print"), Name("obj")}, a \in Atoms}
    \cup {Attr(Name("obj"), "print")}

\* a call whose argument is itself a call, a method call, a call of a call,
\* and a call with two arguments
Nested ==
    {Call(f, <<a>>) :
        f \in {Name("print"), Attr(Name("obj"), "print"), Call(Name("print"), <<>>)},
        a \in {Name("print"), Const("'print'"), Attr(Name("obj"), "print"),
               Call(Name("print"), <<Const("'print'")>>)}}
    \cup {Call(Name("obj"), <<Call(Name("print"), <<>>), Name("print")>>)}

CellStmts ==
    {Expr(e) : e \in Simple \cup Nested}
    \cup {Assign("f", e) : e \in {Name("print"), Call(Name("print"), <<Const("'print'")>>)}}

Cells == UNION {[1..k -> CellStmts] : k \in 0..MaxCell}

Comment == "# print('x')"

RECURSIVE UnparseExpr(_), UnparseArgs(_)
\* ast.unparse of an expression, as tokens.
UnparseExpr(n) ==
    CASE n.t = "Call" ->
            UnparseExpr(n.kids[1]) \o <<"(">> \o UnparseArgs(Tail(n.kids)) \o <<")">>
      [] n.t = "Attribute" -> UnparseExpr(n.kids[1]) \o <<".", n.id>>
      [] OTHER -> <<n.id>>

UnparseArgs(args) ==
    IF args = <<>> THEN <<>>
    ELSE UnparseExpr(Head(args))
         \o (IF Len(args) > 1 THEN <<",">> ELSE <<>>) \o UnparseArgs(Tail(args))

UnparseStmt(n) ==
    IF n.t = "Assign" THEN <<n.id, "=">> \o UnparseExpr(n.kids[1])
    ELSE UnparseExpr(n.kids[1])

RECURSIVE UnparseBody(_)
UnparseBody(body) ==
    IF body = <<>> THEN <<>>
    ELSE UnparseStmt(Head(body))
         \o (IF Len(body) > 1 THEN <<"\n">> ELSE <<>>) \o UnparseBody(Tail(body))

\* Line 158: ast.unparse(tree).
Unparse(tree) == UnparseBody(tree.kids)

\* The cell as the user typed it: each statement on its own line, the
\* statement's own text, a comment after it when the user wrote one.
RECURSIVE Typed(_, _)
Typed(body, commented) ==
    IF body = <<>> THEN (IF commented THEN <<Comment, "\n">> ELSE <<>>)
    ELSE UnparseStmt(Head(body))
         \o (IF commented THEN <<Comment>> ELSE <<>>) \o <<"\n">>
         \o Typed(Tail(body), FALSE)

RECURSIVE ParseExpr(_), ParseTrailers(_, _), ParseArgs(_, _)
\* ast.parse of an expression at the head of toks: the node and what follows.
ParseExpr(toks) ==
    ParseTrailers(IF Head(toks) = "'print'" THEN Const(Head(toks)) ELSE Name(Head(toks)),
                  Tail(toks))

ParseTrailers(node, toks) ==
    IF toks # <<>> /\ Head(toks) = "("
    THEN LET r == ParseArgs(<<>>, Tail(toks)) IN
         ParseTrailers(Call(node, r.args), r.rest)
    ELSE IF toks # <<>> /\ Head(toks) = "."
    THEN ParseTrailers(Attr(node, toks[2]), SubSeq(toks, 3, Len(toks)))
    ELSE [node |-> node, rest |-> toks]

ParseArgs(acc, toks) ==
    IF Head(toks) = ")" THEN [args |-> acc, rest |-> Tail(toks)]
    ELSE LET e == ParseExpr(toks) IN
         IF Head(e.rest) = ","
         THEN ParseArgs(acc \o <<e.node>>, Tail(e.rest))
         ELSE [args |-> acc \o <<e.node>>, rest |-> Tail(e.rest)]

RECURSIVE ParseBody(_)
ParseBody(toks) ==
    IF toks = <<>> THEN <<>>
    ELSE IF Head(toks) \in {"\n", Comment} THEN ParseBody(Tail(toks))
    ELSE IF Len(toks) > 1 /\ toks[2] = "="
    THEN LET e == ParseExpr(SubSeq(toks, 3, Len(toks))) IN
         <<Assign(toks[1], e.node)>> \o ParseBody(e.rest)
    ELSE LET e == ParseExpr(toks) IN <<Expr(e.node)>> \o ParseBody(e.rest)

\* Line 155: ast.parse(code); comments and layout are not part of the tree.
Parse(toks) == Module(ParseBody(toks))

RECURSIVE Visit(_), GenericVisit(_), VisitCall(_)
\* NodeTransformer.generic_visit: every child is visited in turn.
GenericVisit(node) ==
    [node EXCEPT !.kids = [k \in 1..Len(node.kids) |-> Visit(node.kids[k])]]

\* Lines 150-153 without the descent into the call's own children.
VisitCallNoDescent(node) ==
    IF node.kids[1].t = "Name" /\ node.kids[1].id = "print"
    THEN [node EXCEPT !.kids[1].id = "custom_print"]
    ELSE node

\* Lines 150-153: PrintTransformer.visit_Call.
VisitCall(node) ==
    GenericVisit(IF node.kids[1].t = "Name" /\ node.kids[1].id = "print"
                 THEN [node EXCEPT !.kids[1].id = "custom_print"]
                 ELSE node)

\* NodeTransformer.visit: visit_Call for a Call, generic_visit otherwise.
Visit(node) == IF node.t = "Call" THEN VisitCall(node) ELSE GenericVisit(node)

NewRewrite(body, commented) ==
    [pc |-> "parse", code |-> Typed(body, commented), tree |-> Module(<<>>),
     new_code |-> <<>>]

InitRewrite ==
    /\ rewrite \in {NewRewrite(b, c) : b \in Cells, c \in BOOLEAN}
    /\ inv = IdleInv
    /\ fs = IdleFs
    /\ child = IdleChild
    /\ recon = IdleRecon
    /\ opts = IdleOpts

NotRewrite == <<inv, fs, child, recon, opts>>

\* Line 155.
RP_Parse ==
    /\ rewrite.pc = "parse"
    /\ rewrite' = [rewrite EXCEPT !.pc = "visit", !.tree = Parse(rewrite.code)]
    /\ UNCHANGED NotRewrite

\* Line 156.
RP_Visit ==
    /\ rewrite.pc = "visit"
    /\ rewrite' = [rewrite EXCEPT !.pc = "unparse", !.tree = Visit(rewrite.tree)]
    /\ UNCHANGED NotRewrite

\* Lines 157-159.
RP_Unparse ==
    /\ rewrite.pc = "unparse"
    /\ rewrite' = [rewrite EXCEPT !.pc = "done", !.new_code = Unparse(rewrite.tree)]
    /\ UNCHANGED NotRewrite

NextRewrite ==
    \/ RP_Parse
    \/ RP_Visit
    \/ RP_Unparse

SpecRewrite == InitRewrite /\ [][NextRewrite]_vars

\* ------------------------------------------------- claims about the runner

\* Invocation i's own file is on disk.
OwnFileExists(i) ==
    /\ inv[i].path # 0
    /\ fs[inv[i].path].exists
    /\ fs[inv[i].path].owner = i

Returned(i) == inv[i].pc = "done"

\* C1 (as claimed): once the temporary file has been created, it is gone when
\* execute_script hands control back, and it has been unlinked exactly once,
\* on every exit path, a raise while setting permissions, writing or closing
\* included.
C1_FileGoneOnEveryExit ==
    \A i \in Invocations :
        (Returned(i) /\ inv[i].created) =>
            (~OwnFileExists(i) /\ inv[i].unlinks = 1)

\* C2 (as claimed): a launch failure (uv missing) or a non-zero exit is
\* reported as a Failure outcome with a diagnostic displayed and never leaves
\* execute_script as an exception; a raise comes only from the file I/O.
C2_RunnerFailuresAreReported ==
    \A i \in Invocations :
        Returned(i) =>
            /\ inv[i].fault \in {"launch", "nonzero"} =>
                   (inv[i].outcome = "Failure" /\ inv[i].displayed # "nothing")
            /\ inv[i].outcome = "Raised" =>
                   inv[i].fault \in {"create", "chmod", "write", "close"}

Live(i) == inv[i].pc \in {"chmod", "write", "close", "launch", "child", "finally"}

\* C8: under every interleaving, two live invocations never hold the same
\* name; from the close of its file until its child has terminated an
\* invocation's file is on disk with its own script text, the child was
\* handed that very file and read that text, and the file it unlinks is its
\* own.
C8_NoCollision ==
    /\ \A i, j \in Invocations :
           (i # j /\ Live(i) /\ Live(j)) => inv[i].path # inv[j].path
    /\ \A i \in Invocations :
           /\ Live(i) => OwnFileExists(i)
           /\ inv[i].pc \in {"launch", "child"} =>
                  /\ fs[inv[i].path].text = ScriptOf(i)
                  /\ inv[i].cmd[Len(inv[i].cmd)] = inv[i].path
           /\ inv[i].pc \in {"child", "finally"} /\ inv[i].fault # "launch" =>
                  inv[i].ran = ScriptOf(i)
           /\ Returned(i) /\ inv[i].unlinks > 0 => ~OwnFileExists(i)

\* Two invocations have their children running at once, each on its own file.
C8_Witness ==
    \E i, j \in Invocations :
        /\ i # j
        /\ inv[i].pc = "child"
        /\ inv[j].pc = "child"
        /\ inv[i].ran = ScriptOf(i)
        /\ inv[j].ran = ScriptOf(j)

\* ------------------------------------------------- claims about the harness

Count(seq, tok) == Cardinality({i \in 1..Len(seq) : seq[i] = tok})

\* tok stands between an opening <pre style="color:red;"> and its </pre>.
InFailureBlock(seq, tok) ==
    \E i, j, k \in 1..Len(seq) :
        /\ i < j /\ j < k
        /\ seq[i] = PreOpen /\ seq[j] = tok /\ seq[k] = PreClose

Ended == child.pc = "end"

\* C3 (as claimed): however the cell fails by raising, the child still
\* reaches its footer and exits 0, the outcome is Success and the stdout
\* accumulator carries a failure block with the failure message.
C3_EveryRaiseIsContained ==
    (Ended /\ child.raised # "no") =>
        /\ child.status = 0
        /\ Count(child.steps, "emit") = 1
        /\ child.outcome = "Success"
        /\ InFailureBlock(child.out, child.message)

ExpectedSteps(plotting) ==
    <<"redirect">> \o (IF plotting THEN <<"backend">> ELSE <<>>) \o <<"user">>
      \o (IF plotting THEN <<"capture">> ELSE <<>>) \o <<"restore", "emit">>

\* C4 (as claimed): every run of the harness goes redirect, (plotting) Agg,
\* user code, (plotting) capture, restore, emit in that order, and on every
\* path the original streams are back and exactly one result line is the
\* child's last output.
C4_OrderedAndAlwaysEmits ==
    Ended =>
        /\ child.steps = ExpectedSteps(child.use_matplotlib)
        /\ child.sys_stdout = "orig"
        /\ child.sys_stderr = "orig"
        /\ Len(child.realOut) = 1
        /\ child.realOut[1] = ResultLine(child.out, child.err)

\* C5 (as claimed): with plotting on, once the cell has completed (it
\* succeeded, or raised and the harness handled it), every figure open then
\* has exactly one plot block in the stdout accumulator and no figure is open
\* when the result line is emitted.
C5_FiguresCapturedAfterFailureToo ==
    (Ended /\ child.use_matplotlib /\ child.raised \in {"no", "Exception"}) =>
        /\ Count(child.out, PlotOpen) = Cardinality(child.figsAtEnd)
        /\ \A n \in child.figsAtEnd : Count(child.out, ImgStr(n)) = 1
        /\ child.figs = {}

\* C7 (as claimed): when the cell raises, the message and the full traceback
\* are in the stdout accumulator inside one failure block, and the traceback
\* is nowhere else.
C7_TracebackInsideFailureBlock ==
    (Ended /\ child.raised = "Exception") =>
        /\ Count(child.out, PreOpen) = 1
        /\ InFailureBlock(child.out, child.message)
        /\ InFailureBlock(child.out, TracebackText)
        /\ Count(child.err, TracebackText) = 0

\* -------------------------------------------------- claim about process_output

\* The text is the result object: it parses, to an object with both keys.
IsResultObject(text) ==
    /\ JsonLoads(text).ok
    /\ JsonLoads(text).value.type = "dict"
    /\ {"stdout", "stderr"} \subseteq JsonLoads(text).value.keys

\* C6 (as claimed): process_output raises on no raw_stdout; a text that is
\* not the result object (not JSON, JSON of another shape, a result line with
\* other lines around it) is shown verbatim as unparsed output; a text that is
\* the result object is rendered as markup, followed by the stderr text only
\* when that text is not empty.
C6_NeverRaisesAndFallsBack ==
    recon.pc = "end" =>
        /\ recon.raised = "none"
        /\ (~recon.isNone /\ recon.output_json # <<>>) =>
              IF IsResultObject(recon.output_json)
              THEN /\ Len(recon.shown) = (IF recon.stderr # "" THEN 2 ELSE 1)
                   /\ recon.shown[1].kind = "html"
                   /\ recon.stderr # "" => recon.shown[2].kind = "stderr"
              ELSE /\ Len(recon.shown) = 1
                   /\ recon.shown[1].kind = "raw"
                   /\ recon.shown[1].body = recon.output_json

\* ------------------------------------------------- claim about the header

\* The options line is one the syntax leaves no doubt about: each option at
\* most once, a --python with no value only at the end, and the word after
\* the last dependency of --with is a --flag (the dependencies run up to the
\* next --flag).
WellFormed(gs) ==
    /\ \A k, m \in 1..Len(gs) :
           (k # m /\ gs[k].kind = gs[m].kind) => gs[k].kind = "other"
    /\ \A k \in 1..Len(gs) :
           /\ (gs[k].kind = "other" /\ gs[k].words = <<FlagPython>>) => k = Len(gs)
           /\ (gs[k].kind = "with" /\ k < Len(gs)) =>
                  StartsWith(gs[k + 1].words[1], "--")

Supplied(gs) == \E k \in 1..Len(gs) : gs[k].kind = "spec"
SuppliedConstraint(gs) == gs[CHOOSE k \in 1..Len(gs) : gs[k].kind = "spec"].c
SuppliedDeps(gs) ==
    IF \E k \in 1..Len(gs) : gs[k].kind = "with"
    THEN gs[CHOOSE k \in 1..Len(gs) : gs[k].kind = "with"].d
    ELSE <<>>

ComparisonOperators == {"==", "===", "!=", "~=", "<=", ">=", "<", ">"}

WithOperator(c) ==
    IF c # <<>> /\ c[1] \in ComparisonOperators THEN c ELSE <<"==">> \o c

\* The strings of a JSON array of strings, read back from its text; a text
\* that is no such array reads as <<<<"?">>>>.
RECURSIVE ReadItems(_)
ReadItems(s) ==
    IF s = <<>> THEN <<>>
    ELSE IF s[1] # "\"" \/ ~\E k \in 2..Len(s) : s[k] = "\"" THEN <<<<"?">>>>
    ELSE LET close == CHOOSE k \in 2..Len(s) :
                         s[k] = "\"" /\ \A m \in 2..(k - 1) : s[m] # "\""
             rest == SubSeq(s, close + 1, Len(s))
         IN  IF rest = <<>> THEN <<SubSeq(s, 2, close - 1)>>
             ELSE IF rest[1] # ", " \/ Len(rest) = 1 THEN <<<<"?">>>>
             ELSE <<SubSeq(s, 2, close - 1)>> \o ReadItems(Tail(rest))

ReadArray(s) ==
    IF Len(s) >= 2 /\ s[1] = "[" /\ s[Len(s)] = "]"
    THEN ReadItems(SubSeq(s, 2, Len(s) - 1))
    ELSE <<<<"?">>>>

DirectCallAt(text, i, name) ==
    /\ text[i] = name
    /\ i < Len(text) /\ text[i + 1] = "("
    /\ (i = 1 \/ text[i - 1] # ".")

DirectCalls(text, name) ==
    Cardinality({i \in 1..Len(text) : DirectCallAt(text, i, name)})

IsCode(tok) == tok \notin {Comment, "\n"}

\* The text without its comments and line ends.
CodeOf(text) == SelectSeq(text, IsCode)

\* C10: code with N direct calls of print comes back with exactly N calls of
\* custom_print and no direct call of print; nothing else changes: obj.print(...),
\* a print that is not called and 'print' inside a string literal stay as they
\* are, and code without a print call comes back the same.
C10_OnlyDirectPrintCallsRetargeted ==
    rewrite.pc = "done" =>
        LET old == rewrite.code
            new == rewrite.new_code
            N == DirectCalls(old, "print")
        IN  /\ DirectCalls(new, "custom_print") = N
            /\ DirectCalls(new, "print") = 0
            /\ CodeOf(new) =
                 [i \in 1..Len(CodeOf(old)) |->
                     IF DirectCallAt(CodeOf(old), i, "print") THEN "custom_print"
                     ELSE CodeOf(old)[i]]
            /\ N = 0 => CodeOf(new) = CodeOf(old)

\* A cell with a print call inside a print call's argument, a method call
\* obj.print(...), a string 'print' and a comment has been rewritten.
C10_Witness ==
    /\ rewrite.pc = "done"
    /\ DirectCalls(rewrite.code, "print") = 2
    /\ \E i \in 1..Len(rewrite.code) :
           /\ DirectCallAt(rewrite.code, i, "print")
           /\ i + 2 <= Len(rewrite.code)
           /\ DirectCallAt(rewrite.code, i + 2, "print")
    /\ \E i \in 2..Len(rewrite.code) :
           rewrite.code[i] = "print" /\ rewrite.code[i - 1] = "."
    /\ \E i \in 1..Len(rewrite.code) : rewrite.code[i] = "'print'"
    /\ \E i \in 1..Len(rewrite.code) : rewrite.code[i] = Comment

====
